---- MODULE Spec2Model ----
(***************************************************************************)
(* Model of src/app_stats.py: the Flask endpoint POST /api/get_stats.      *)
(*                                                                         *)
(* A request is handled in two steps separated by the only suspension      *)
(* point of the handler, the blocking call stats_model.generate_content:   *)
(*   get_stats_entry   lines 73-88  (guards, prompt construction, call)    *)
(*   get_stats_resume  lines 90-95  (extract text, json.loads, jsonify,    *)
(*                                   or the except branch)                 *)
(* Several requests are in flight at once (the host server's per-request   *)
(* concurrency); the steps of different requests interleave freely.        *)
(***************************************************************************)
EXTENDS Integers, Sequences, FiniteSets, TLC

\* Number of requests in flight at once.
NumRequests == 2

Requests == 1..NumRequests

VARIABLES
    API_KEY,   \* the module-level credential, line 8
    pc,        \* per request: "idle", "awaiting", "done", "failed"
    body,      \* per request: the request body received
    sent,      \* per request: the request passed to generate_content
    calls,     \* per request: number of invocations of generate_content
    reply,     \* per request: what generate_content gave back
    resp       \* per request: the response returned to the caller

vars == <<API_KEY, pc, body, sent, calls, reply, resp>>

-----------------------------------------------------------------------------
(* JSON values.  Every value is a record of one shape so that any two can   *)
(* be compared: type is the Python type after json parsing, n the number    *)
(* (int, bool as 0/1), s the string, items the elements of a list, segs the   *)
(* segments of a string given piecewise, fields the mapping of a dict.      *)

JNull        == [type |-> "null", n |-> 0, s |-> "", items |-> <<>>, segs |-> <<>>, fields |-> <<>>]
JInt(i)      == [type |-> "int",  n |-> i, s |-> "", items |-> <<>>, segs |-> <<>>, fields |-> <<>>]
JBool(b)     == [type |-> "bool", n |-> IF b THEN 1 ELSE 0, s |-> "", items |-> <<>>, segs |-> <<>>, fields |-> <<>>]
JStr(str)    == [type |-> "str",  n |-> 0, s |-> str, items |-> <<>>, segs |-> <<>>, fields |-> <<>>]
\* a string given by its consecutive segments (the substring test of Python's
\* `in` is a test on the segments)
JText(sg)    == [type |-> "str",  n |-> 0, s |-> "", items |-> <<>>, segs |-> sg, fields |-> <<>>]
JList(elems) == [type |-> "list", n |-> 0, s |-> "", items |-> elems, segs |-> <<>>, fields |-> <<>>]
JDict(f)     == [type |-> "dict", n |-> 0, s |-> "", items |-> <<>>, segs |-> <<>>, fields |-> f]

\* the empty mapping and a one-key mapping
EmptyMap == [k \in {} |-> JNull]
Map1(k, v) == [x \in {k} |-> v]
\* Python dict assignment d[k] = v (a later key overwrites an earlier one)
MapPut(f, k, v) == [x \in (DOMAIN f) \cup {k} |-> IF x = k THEN v ELSE f[x]]

\* Python truthiness, as used by `not data` (line 78)
Truthy(v) ==
    CASE v.type = "null" -> FALSE
      [] v.type = "bool" -> v.n = 1
      [] v.type = "int"  -> v.n # 0
      [] v.type = "str"  -> v.s # "" \/ Len(v.segs) > 0
      [] v.type = "list" -> Len(v.items) > 0
      [] v.type = "dict" -> DOMAIN v.fields # {}

\* whether the Python expression `k in v` is defined (it raises TypeError on
\* None, bool and int)
SupportsIn(v) == v.type \in {"str", "list", "dict"}

\* Python `k in v` for the types that support it: key of a dict, element of
\* a list, substring of a string
Contains(v, k) ==
    CASE v.type = "dict" -> k \in DOMAIN v.fields
      [] v.type = "list" -> \E i \in 1..Len(v.items) : v.items[i] = JStr(k)
      [] v.type = "str"  -> v.s = k \/ \E i \in 1..Len(v.segs) : v.segs[i] = k

-----------------------------------------------------------------------------
(* The credential, line 8: os.getenv returns None or a string.              *)

KeyNone   == [isNone |-> TRUE,  s |-> ""]
KeyOf(str) == [isNone |-> FALSE, s |-> str]
Keys == {KeyNone, KeyOf(""), KeyOf("secret")}

\* the test of line 73 inverted (`if API_KEY:`)
KeyMissing_inverted(key) == ~(key.isNone \/ key.s = "")

\* `not API_KEY` (line 73): None and the empty string are both falsy
KeyMissing(key) == key.isNone \/ key.s = ""

-----------------------------------------------------------------------------
(* A JSON text (the request body, the text returned by the upstream         *)
(* capability) as the sequence of its tokens, and json.loads on it.         *)

TPunct(c) == [k |-> "punct", s |-> c, n |-> 0, segs |-> <<>>]
TString(x) == [k |-> "str",  s |-> x, n |-> 0, segs |-> <<>>]
\* a string literal given by its consecutive segments
TSegments(sg) == [k |-> "str", s |-> "", n |-> 0, segs |-> sg]
TNumber(i) == [k |-> "int",  s |-> "", n |-> i, segs |-> <<>>]
\* a bare word: null, true, false, or anything else (prose, markdown fence)
TWord(w)  == [k |-> "word",  s |-> w, n |-> 0, segs |-> <<>>]
TSpace    == [k |-> "ws",    s |-> " ", n |-> 0, segs |-> <<>>]

LBrace == TPunct("{")
RBrace == TPunct("}")
LBrack == TPunct("[")
RBrack == TPunct("]")
Colon  == TPunct(":")
Comma  == TPunct(",")

\* the result of a parse: a value, or the exception raised
Parsed(v)   == [ok |-> TRUE,  value |-> v, exc |-> ""]
ParseError(m) == [ok |-> FALSE, value |-> JNull, exc |-> m]

\* json.loads skips insignificant whitespace between tokens
RECURSIVE SkipSpace(_)
SkipSpace(t) ==
    IF t = <<>> THEN <<>>
    ELSE IF Head(t).k = "ws" THEN SkipSpace(Tail(t))
    ELSE <<Head(t)>> \o SkipSpace(Tail(t))

IsScalar(tok) ==
    \/ tok.k \in {"str", "int"}
    \/ tok.k = "word" /\ tok.s \in {"null", "true", "false"}

ScalarValue(tok) ==
    CASE tok.k = "str" -> IF tok.segs = <<>> THEN JStr(tok.s) ELSE JText(tok.segs)
      [] tok.k = "int" -> JInt(tok.n)
      [] tok.k = "word" /\ tok.s = "null" -> JNull
      [] tok.k = "word" /\ tok.s = "true" -> JBool(TRUE)
      [] tok.k = "word" /\ tok.s = "false" -> JBool(FALSE)

\* members of an object from position i on: "key" : scalar, then , or }
RECURSIVE ParseMembers(_, _, _)
ParseMembers(t, i, acc) ==
    IF i + 3 > Len(t) THEN ParseError("Expecting property name or value")
    ELSE IF t[i].k # "str" THEN ParseError("Expecting property name enclosed in double quotes")
    ELSE IF t[i+1] # Colon THEN ParseError("Expecting ':' delimiter")
    ELSE IF ~IsScalar(t[i+2]) THEN ParseError("Expecting value")
    ELSE LET acc2 == MapPut(acc, t[i].s, ScalarValue(t[i+2]))
         IN  IF t[i+3] = RBrace
             THEN IF i + 3 = Len(t) THEN Parsed(JDict(acc2)) ELSE ParseError("Extra data")
             ELSE IF t[i+3] = Comma THEN ParseMembers(t, i + 4, acc2)
             ELSE ParseError("Expecting ',' delimiter")

\* elements of an array from position i on: scalar, then , or ]
RECURSIVE ParseElements(_, _, _)
ParseElements(t, i, acc) ==
    IF i + 1 > Len(t) THEN ParseError("Expecting value")
    ELSE IF ~IsScalar(t[i]) THEN ParseError("Expecting value")
    ELSE LET acc2 == Append(acc, ScalarValue(t[i]))
         IN  IF t[i+1] = RBrack
             THEN IF i + 1 = Len(t) THEN Parsed(JList(acc2)) ELSE ParseError("Extra data")
             ELSE IF t[i+1] = Comma THEN ParseElements(t, i + 2, acc2)
             ELSE ParseError("Expecting ',' delimiter")

\* json.loads: of stats_text at line 91, and of the request body inside
\* request.get_json() at line 77
json_loads(text) ==
    LET t == SkipSpace(text)
    IN  IF t = <<>> THEN ParseError("Expecting value")
        ELSE IF t[1] = LBrace
             THEN IF Len(t) >= 2 /\ t[2] = RBrace
                  THEN IF Len(t) = 2 THEN Parsed(JDict(EmptyMap)) ELSE ParseError("Extra data")
                  ELSE ParseMembers(t, 2, EmptyMap)
        ELSE IF t[1] = LBrack
             THEN IF Len(t) >= 2 /\ t[2] = RBrack
                  THEN IF Len(t) = 2 THEN Parsed(JList(<<>>)) ELSE ParseError("Extra data")
                  ELSE ParseElements(t, 2, <<>>)
        ELSE IF IsScalar(t[1])
             THEN IF Len(t) = 1 THEN Parsed(ScalarValue(t[1])) ELSE ParseError("Extra data")
        ELSE ParseError("Expecting value")

-----------------------------------------------------------------------------
(* Responses.  jsonify makes a JSON response; an exception that leaves the  *)
(* view function is turned by the host framework into an HTML error page.   *)

NoResponse == [status |-> 0, mimetype |-> "", body |-> JNull, raised |-> ""]

\* jsonify(v), status  (lines 74, 79, 91, 95)
jsonify(v, status) ==
    [status |-> status, mimetype |-> "application/json", body |-> v, raised |-> ""]

\* the body {"error": msg}
ErrorBody(msg) == JDict(Map1("error", JStr(msg)))

\* an exception escaping get_stats: the framework answers 500 with its own
\* error page (the debugger page under debug=True, line 103)
Unhandled(exc) ==
    [status |-> 500, mimetype |-> "text/html", body |-> JNull, raised |-> exc]

\* an HTTPException raised inside the view (BadRequest from get_json):
\* the framework answers with the exception's own status and page
Aborted(status, exc) ==
    [status |-> status, mimetype |-> "text/html", body |-> JNull, raised |-> exc]

-----------------------------------------------------------------------------
(* The request sent upstream (lines 54-62, 85-88) and what comes back.      *)

NoPrompt == [instruction |-> "", contents |-> "", schema |-> ""]

\* str() of a value inside an f-string
Format(v) ==
    CASE v.type = "str"  -> v.s
      [] v.type = "int"  -> ToString(v.n)
      [] v.type = "bool" -> IF v.n = 1 THEN "True" ELSE "False"
      [] v.type = "null" -> "None"
      [] OTHER -> "<object>"

\* the request kept in a module-level variable that every handler assigns
\* and reads: a handler entering while another awaits its reply sends the
\* other one's request
GenerationRequest_shared(user_query) ==
    IF \E q \in Requests : pc[q] = "awaiting"
    THEN sent[CHOOSE q \in Requests : pc[q] = "awaiting"]
    ELSE [instruction |-> "STATS_PROMPT",
          contents    |-> "Generate stats for: " \o Format(user_query),
          schema      |-> "STATS_SCHEMA"]

\* generate_content(f"Generate stats for: {user_query}", generation_config=...)
\* on the model built with system_instruction=STATS_PROMPT
GenerationRequest(user_query) ==
    [instruction |-> "STATS_PROMPT",
     contents    |-> "Generate stats for: " \o Format(user_query),
     schema      |-> "STATS_SCHEMA"]

NoReply == [kind |-> "none", exc |-> "", candidates |-> 0, text |-> <<>>]
\* generate_content raises
Raises(e) == [kind |-> "raise", exc |-> e, candidates |-> 0, text |-> <<>>]
\* generate_content returns a response without candidates (blocked prompt)
Blocked == [kind |-> "response", exc |-> "", candidates |-> 0, text |-> <<>>]
\* generate_content returns a response whose first part has this text
Text(t) == [kind |-> "response", exc |-> "", candidates |-> 1, text |-> t]

-----------------------------------------------------------------------------
(* STATS_SCHEMA, lines 40-52: the shape requested from the upstream         *)
(* capability.                                                              *)

RequiredFields ==
    {"name", "query_type", "description", "stability", "reactivity",
     "explosiveness", "fun_fact"}
NumericFields == {"stability", "reactivity", "explosiveness"}

\* a value of the requested shape: an object with the seven fields, the
\* three ratings integers from 0 to 10
Conforms(v) ==
    /\ v.type = "dict"
    /\ RequiredFields \subseteq DOMAIN v.fields
    /\ \A f \in NumericFields :
          /\ v.fields[f].type = "int"
          /\ v.fields[f].n \in 0..10
    /\ \A f \in RequiredFields \ NumericFields : v.fields[f].type = "str"

-----------------------------------------------------------------------------
(* get_stats, lines 72-95.  Each half of the handler yields a step: where   *)
(* the request is next, the response if one is returned, the request sent   *)
(* upstream and whether generate_content is invoked by the step.            *)

Return(pcv, r) == [pc |-> pcv, resp |-> r, sent |-> NoPrompt, invoke |-> FALSE]
Await(req)     == [pc |-> "awaiting", resp |-> NoResponse, sent |-> req, invoke |-> TRUE]

\* request.get_json(), line 77: the parsed body, or BadRequest
get_json(raw) == json_loads(raw)

\* data['query'], line 81
Subscript(data, k) ==
    IF data.type = "dict"
    THEN IF k \in DOMAIN data.fields THEN Parsed(data.fields[k]) ELSE ParseError("KeyError")
    ELSE ParseError("TypeError")

\* line 78 reduced to `if not data:`
QueryCheck_truthy_only(data) ==
    IF ~Truthy(data) THEN "reject" ELSE "accept"

\* the test of line 78, `not data or 'query' not in data`:
\* "reject", "accept", or the exception `in` raises on a non-container
QueryCheck(data) ==
    IF ~Truthy(data) THEN "reject"
    ELSE IF ~SupportsIn(data) THEN "TypeError"
    ELSE IF ~Contains(data, "query") THEN "reject"
    ELSE "accept"

\* lines 77-88, reached with the credential present
validate_and_call(raw) ==
    LET got == get_json(raw)
    IN  IF ~got.ok THEN Return("failed", Aborted(400, "BadRequest"))
        ELSE LET check == QueryCheck(got.value)
                 user_query == Subscript(got.value, "query")
             IN  IF check = "reject"
                 THEN Return("failed",
                        jsonify(ErrorBody("Invalid request: 'query' missing in JSON body"), 400))
                 ELSE IF check # "accept" THEN Return("failed", Unhandled(check))
                 ELSE IF ~user_query.ok THEN Return("failed", Unhandled(user_query.exc))
                 ELSE Await(GenerationRequest(user_query.value))

\* lines 73-88 with the credential test placed after the body validation
get_stats_entry_query_first(key, raw) ==
    LET step == validate_and_call(raw)
    IN  IF step.pc = "failed" THEN step
        ELSE IF KeyMissing(key)
        THEN Return("failed", jsonify(ErrorBody("Server is missing GEMINI_API_KEY"), 500))
        ELSE step

\* lines 73-88: from the entry of the handler to the upstream call
get_stats_entry(key, raw) ==
    IF KeyMissing(key)
    THEN Return("failed", jsonify(ErrorBody("Server is missing GEMINI_API_KEY"), 500))
    ELSE validate_and_call(raw)

\* the except branch with a fixed message, the exception text dropped
on_exception_generic(e) ==
    Return("failed", jsonify(ErrorBody("AI stats generation failed"), 500))

\* the except branch calling generate_content again instead of answering
on_exception_retry(e) ==
    [pc |-> "awaiting", resp |-> NoResponse, sent |-> NoPrompt, invoke |-> TRUE]

\* lines 93-95: the except branch
on_exception(e) ==
    Return("failed", jsonify(ErrorBody("AI stats generation failed: " \o e), 500))

\* line 91 with the parsed value checked against STATS_SCHEMA before it is
\* returned
on_parsed_validated(v) ==
    IF Conforms(v) THEN Return("done", jsonify(v, 200))
    ELSE Return("failed", jsonify(ErrorBody("AI stats generation failed: schema"), 500))

\* line 91: return jsonify(<parsed>)
on_parsed(v) == Return("done", jsonify(v, 200))

\* lines 90-95: from the return of generate_content to the response
get_stats_resume(out) ==
    IF out.kind = "raise" THEN on_exception(out.exc)
    ELSE IF out.candidates = 0 THEN on_exception("list index out of range")
    ELSE LET p == json_loads(out.text)
         IN  IF p.ok THEN on_parsed(p.value) ELSE on_exception(p.exc)

-----------------------------------------------------------------------------
(* Inputs: request bodies a client can send and outcomes of the upstream    *)
(* call.                                                                    *)

Member(k, v) == <<TString(k), Colon, v>>
Object1(k, v) == <<LBrace>> \o Member(k, v) \o <<RBrace>>

Body_Fe        == Object1("query", TString("Fe"))
Body_H2O       == <<TSpace, LBrace, TSpace>> \o Member("query", TString("H2O")) \o <<TSpace, RBrace>>
Body_EmptyQuery == Object1("query", TString(""))
Body_OtherKey  == Object1("formula", TString("Fe"))
Body_EmptyObject == <<LBrace, RBrace>>
Body_Null      == <<TWord("null")>>
Body_Five      == <<TNumber(5)>>
Body_ListQuery == <<LBrack, TString("query"), RBrack>>
Body_ListOther == <<LBrack, TString("Fe"), RBrack>>
Body_StrQuery  == <<TSegments(<<"my ", "query">>)>>
Body_Truncated == <<LBrace, TString("query")>>
Body_Blank     == <<>>

Bodies ==
    {Body_Fe, Body_H2O, Body_EmptyQuery, Body_OtherKey, Body_EmptyObject,
     Body_Null, Body_Five, Body_ListQuery, Body_ListOther,
     Body_StrQuery, Body_Truncated, Body_Blank}

\* a text with all seven fields; st is the stability token, sp optional space
Record7(st, sp) ==
    <<LBrace>> \o sp
      \o Member("name", TString("Iron")) \o <<Comma>> \o sp
      \o Member("query_type", TString("element")) \o <<Comma>> \o sp
      \o Member("description", TString("A sturdy metal.")) \o <<Comma>> \o sp
      \o Member("stability", st) \o <<Comma>> \o sp
      \o Member("reactivity", TNumber(4)) \o <<Comma>> \o sp
      \o Member("explosiveness", TNumber(0)) \o <<Comma>> \o sp
      \o Member("fun_fact", TString("Iron is forged in dying stars."))
      \o sp \o <<RBrace>>

Text_Iron       == Record7(TNumber(7), <<>>)
Text_IronSpaced == Record7(TNumber(7), <<TSpace>>)
Text_OutOfRange == Record7(TNumber(11), <<>>)
Text_WrongType  == Record7(TString("high"), <<>>)
Text_OneField   == <<LBrace>> \o Member("name", TString("Fe")) \o <<Comma>>
                     \o Member("name", TString("Iron")) \o <<RBrace>>
Text_List       == <<LBrack, RBrack>>
Text_Prose      == <<TWord("Sure"), TSpace, TWord("here")>> \o Text_Iron
Text_Truncated  == <<LBrace>> \o Member("name", TString("Iron")) \o <<Comma>>

Texts ==
    {Text_Iron, Text_IronSpaced, Text_OutOfRange, Text_WrongType, Text_OneField,
     Text_List, Text_Prose, Text_Truncated}

Outcomes ==
    {Raises("503 Service Unavailable"), Blocked}
      \cup {Text(t) : t \in Texts}

-----------------------------------------------------------------------------
(* The state machine.                                                       *)

\* the state after import of the module: the credential is read once from
\* the environment, no request has arrived
Init ==
    /\ API_KEY \in Keys
    /\ pc    = [r \in Requests |-> "idle"]
    /\ body  = [r \in Requests |-> <<>>]
    /\ sent  = [r \in Requests |-> NoPrompt]
    /\ calls = [r \in Requests |-> 0]
    /\ reply = [r \in Requests |-> NoReply]
    /\ resp  = [r \in Requests |-> NoResponse]

\* POST /api/get_stats arrives with body b: the handler runs up to its
\* return or up to the blocking upstream call
Enter(r, b) ==
    /\ pc[r] = "idle"
    /\ LET step == get_stats_entry(API_KEY, b)
       IN  /\ pc'    = [pc EXCEPT ![r] = step.pc]
           /\ body'  = [body EXCEPT ![r] = b]
           /\ sent'  = [sent EXCEPT ![r] = step.sent]
           /\ calls' = [calls EXCEPT ![r] = @ + (IF step.invoke THEN 1 ELSE 0)]
           /\ resp'  = [resp EXCEPT ![r] = step.resp]
    /\ UNCHANGED <<API_KEY, reply>>

\* generate_content comes back with outcome out: the handler runs to its
\* return
Resume(r, out) ==
    /\ pc[r] = "awaiting"
    /\ LET step == get_stats_resume(out)
       IN  /\ pc'    = [pc EXCEPT ![r] = step.pc]
           /\ reply' = [reply EXCEPT ![r] = out]
           /\ calls' = [calls EXCEPT ![r] = @ + (IF step.invoke THEN 1 ELSE 0)]
           /\ resp'  = [resp EXCEPT ![r] = step.resp]
    /\ UNCHANGED <<API_KEY, body, sent>>

Next ==
    \/ \E r \in Requests, b \in Bodies : Enter(r, b)
    \/ \E r \in Requests, out \in Outcomes : Resume(r, out)

Spec == Init /\ [][Next]_vars

-----------------------------------------------------------------------------
(* Vocabulary of the properties.                                            *)

Finished(r) == pc[r] \in {"done", "failed"}

\* the response is a JSON object with a string field "error"
HasErrorField(res) ==
    /\ res.mimetype = "application/json"
    /\ res.body.type = "dict"
    /\ "error" \in DOMAIN res.body.fields
    /\ res.body.fields["error"].type = "str"

ErrorMessage(res) == res.body.fields["error"].s

\* the request body read as JSON
DataOf(r) == json_loads(body[r])

\* the body is a JSON object
IsObject(r) == DataOf(r).ok /\ DataOf(r).value.type = "dict"

\* the body is a JSON object with the key "query"
HasQueryKey(r) == IsObject(r) /\ "query" \in DOMAIN DataOf(r).value.fields

QueryValue(r) == DataOf(r).value.fields["query"]

\* the body is an empty JSON value ({}, null, ...) or an object without "query"
EmptyOrLacksQuery(r) ==
    /\ DataOf(r).ok
    /\ \/ ~Truthy(DataOf(r).value)
       \/ IsObject(r) /\ ~HasQueryKey(r)

\* the upstream call of r came back with a failure: it raised, it returned
\* nothing to read, or its text is not valid JSON
UpstreamFailed(r) ==
    \/ reply[r].kind = "raise"
    \/ reply[r].kind = "response" /\ reply[r].candidates = 0
    \/ reply[r].kind = "response" /\ reply[r].candidates = 1 /\ ~json_loads(reply[r].text).ok

\* the message of the failure of the upstream call of r
UnderlyingError(r) ==
    IF reply[r].kind = "raise" THEN reply[r].exc
    ELSE IF reply[r].candidates = 0 THEN "list index out of range"
    ELSE json_loads(reply[r].text).exc

\* the upstream call of r came back with a text that parses as JSON
UpstreamParsed(r) ==
    reply[r].kind = "response" /\ reply[r].candidates = 1 /\ json_loads(reply[r].text).ok

-----------------------------------------------------------------------------
\* C1: with the credential unset, every request that has been handled, whatever
\* its body, has failed with status 500 and a JSON body carrying an error field
\* (the fixed missing-credential message), and nothing was sent upstream.
C1_MissingCredential500 ==
    API_KEY.isNone =>
        \A r \in Requests : pc[r] # "idle" =>
            /\ pc[r] = "failed"
            /\ resp[r].status = 500
            /\ HasErrorField(resp[r])
            /\ ErrorMessage(resp[r]) = "Server is missing GEMINI_API_KEY"

\* the credential is unset and two requests were answered, one with a valid
\* query and one whose body is not even JSON
C1_Witness ==
    /\ API_KEY.isNone
    /\ \E r, q \in Requests :
          /\ body[r] = Body_Fe /\ resp[r].status = 500
          /\ body[q] = Body_Blank /\ resp[q].status = 500

\* C2: with the credential set, a request whose JSON body is empty or is an
\* object without the query key is answered 400 with a JSON error body.
C2_MissingQuery400 ==
    ~KeyMissing(API_KEY) =>
        \A r \in Requests : (pc[r] # "idle" /\ EmptyOrLacksQuery(r)) =>
            /\ pc[r] = "failed"
            /\ resp[r].status = 400
            /\ HasErrorField(resp[r])

\* the credential is set, an empty object and an object with another key were
\* both answered 400
C2_Witness ==
    /\ ~KeyMissing(API_KEY)
    /\ \E r, q \in Requests :
          /\ body[r] = Body_EmptyObject /\ resp[r].status = 400
          /\ body[q] = Body_OtherKey /\ resp[q].status = 400

\* C3: with the credential set, a request whose body has the query key with an
\* empty string as value is answered 400, and nothing is sent upstream for it.
C3_EmptyQuery400 ==
    ~KeyMissing(API_KEY) =>
        \A r \in Requests :
            (pc[r] # "idle" /\ HasQueryKey(r) /\ QueryValue(r) = JStr("")) =>
                /\ pc[r] = "failed"
                /\ resp[r].status = 400
                /\ calls[r] = 0

\* C4: whenever the upstream call of a request raised or returned a text that
\* is not valid JSON, the request is answered 500 with the error message
\* "AI stats generation failed: " followed by the message of the failure.
C4_UpstreamFailure500 ==
    \A r \in Requests : UpstreamFailed(r) =>
        /\ pc[r] = "failed"
        /\ resp[r].status = 500
        /\ HasErrorField(resp[r])
        /\ ErrorMessage(resp[r]) = "AI stats generation failed: " \o UnderlyingError(r)

\* one request whose upstream call raised and one whose upstream text was
\* prose, both answered
C4_Witness ==
    \E r, q \in Requests :
        /\ reply[r] = Raises("503 Service Unavailable") /\ Finished(r)
        /\ reply[q] = Text(Text_Prose) /\ Finished(q)

\* C5: every response with status 200 is an object with the seven required
\* fields, the three ratings integers from 0 to 10.
C5_SuccessConforms ==
    \A r \in Requests : (pc[r] = "done" /\ resp[r].status = 200) => Conforms(resp[r].body)

\* C6: when the upstream text parses as JSON, the request is answered 200 with
\* exactly the parsed value as body, whether or not the value has the shape of
\* STATS_SCHEMA.
C6_ParsedValueRelayed ==
    \A r \in Requests : UpstreamParsed(r) =>
        /\ pc[r] = "done"
        /\ resp[r].status = 200
        /\ resp[r].mimetype = "application/json"
        /\ resp[r].body = json_loads(reply[r].text).value

\* an out-of-range rating and a one-field object were both relayed as they are
C6_Witness ==
    \E r, q \in Requests :
        /\ reply[r] = Text(Text_OutOfRange) /\ pc[r] = "done"
        /\ resp[r].body.fields["stability"] = JInt(11)
        /\ reply[q] = Text(Text_OneField) /\ pc[q] = "done"
        /\ DOMAIN resp[q].body.fields = {"name"}

\* C7: every request that ends without success is answered by the handler
\* itself: a JSON body with an error string field and status 400 or 500, with
\* no exception leaving the handler.
C7_AllErrorsConverted ==
    \A r \in Requests : pc[r] = "failed" =>
        /\ resp[r].raised = ""
        /\ HasErrorField(resp[r])
        /\ resp[r].status \in {400, 500}

\* C8: a finished request never moves again, a request starts awaiting only
\* from idle, a reply ends the request, and generate_content is invoked at most
\* once per request.
C8_OneCycleNoRetry ==
    [][\A r \in Requests :
          /\ Finished(r) => (pc'[r] = pc[r] /\ calls'[r] = calls[r] /\ resp'[r] = resp[r])
          /\ (pc'[r] = "awaiting" /\ pc[r] # "awaiting") => pc[r] = "idle"
          /\ (pc[r] = "awaiting" /\ reply'[r] # reply[r]) => Finished(r)'
          /\ calls'[r] <= 1
          /\ (pc'[r] = "awaiting") => calls'[r] = 1]_vars

\* one request failed after its single upstream call, another succeeded
C8_Witness ==
    \E r, q \in Requests :
        /\ pc[r] = "failed" /\ calls[r] = 1 /\ reply[r].kind = "raise"
        /\ pc[q] = "done" /\ calls[q] = 1

\* a step of one request leaves every other request as it is
FrameStep ==
    \A r, q \in Requests :
        (r # q /\ <<pc[r], body[r], sent[r], calls[r], reply[r], resp[r]>>
                    # <<pc'[r], body'[r], sent'[r], calls'[r], reply'[r], resp'[r]>>)
        => /\ pc'[q] = pc[q] /\ body'[q] = body[q] /\ sent'[q] = sent[q]
           /\ calls'[q] = calls[q] /\ reply'[q] = reply[q] /\ resp'[q] = resp[q]

\* what was sent upstream for r is built from r's own query, and two finished
\* requests with the same body and the same upstream reply have the same
\* response
OwnInputsOnly ==
    /\ \A r \in Requests : calls[r] > 0 =>
          /\ HasQueryKey(r)
          /\ sent[r].contents = "Generate stats for: " \o QueryValue(r).s
    /\ \A r, q \in Requests :
          (Finished(r) /\ Finished(q) /\ body[r] = body[q] /\ reply[r] = reply[q])
          => resp[r] = resp[q]

\* C9: in every interleaving of the requests in flight, what is sent upstream
\* and what is answered for a request is determined by its own body, the
\* credential and its own upstream reply; a step of one request changes nothing
\* of another; the credential never changes.
C9_RequestsIndependent ==
    /\ []OwnInputsOnly
    /\ [][API_KEY' = API_KEY /\ FrameStep]_vars

\* two requests with different queries await their replies at the same time
C9_Witness ==
    \E r, q \in Requests :
        /\ pc[r] = "awaiting" /\ body[r] = Body_Fe
        /\ pc[q] = "awaiting" /\ body[q] = Body_H2O

\* C10: a request answered with the missing-credential 500 or the missing-query
\* 400 never invoked generate_content, and with the credential missing a
\* request whose body lacks the query (or is not JSON at all) is answered 500,
\* not 400.
C10_GuardOrder ==
    \A r \in Requests :
        /\ (Finished(r) /\ HasErrorField(resp[r])
              /\ ErrorMessage(resp[r]) \in
                    {"Server is missing GEMINI_API_KEY",
                     "Invalid request: 'query' missing in JSON body"})
           => (calls[r] = 0 /\ sent[r] = NoPrompt /\ reply[r] = NoReply)
        /\ (KeyMissing(API_KEY) /\ pc[r] # "idle" /\ ~HasQueryKey(r))
           => (resp[r].status = 500 /\ calls[r] = 0)

\* the credential is missing and so is the query: answered 500
C10_Witness ==
    /\ KeyMissing(API_KEY)
    /\ \E r, q \in Requests :
          /\ body[r] = Body_EmptyObject /\ resp[r].status = 500 /\ calls[r] = 0
          /\ body[q] = Body_Truncated /\ resp[q].status = 500

====
